---- MODULE Spec2Model ----
(***************************************************************************)
(* Model of the course-search cache of UAlberta-API:                       *)
(*   src/utils/cache.py        MemoryCache, course_search_cache,           *)
(*                             cached_course_search                        *)
(*   src/database/services.py  CourseService.search_courses_summary and    *)
(*                             CourseService.search_courses_summary_optimized *)
(* Strings are sequences of one-character strings; Optional values are     *)
(* records [isNone, val]; the OrderedDict is a sequence of entries, first  *)
(* element = oldest position, last element = most recently used position.  *)
(***************************************************************************)
EXTENDS Integers, Sequences, FiniteSets, TLC

VARIABLES
    cache,        \* MemoryCache.cache: OrderedDict key -> (results, timestamp)
    max_size,     \* MemoryCache.max_size
    ttl_seconds,  \* MemoryCache.ttl_seconds
    now,          \* the value time.time() returns
    last,         \* observation of the latest call: operation, arguments, result
    lru,          \* history: resident keys ordered by their last access (insertion or get hit)
    run,          \* history: the keys set so far, while the run is only sets of distinct keys
    mru,          \* history: the entries resident at the latest get hit, not evicted since
    db,           \* the courses table, in storage order
    first,        \* history: per search request, the first call of the current quiet period
    kp,           \* a pair of parameter tuples and the keys _generate_key gives them
    th,           \* per thread: the statement it is at and its local variables
    track,        \* which history the specification records: "calls", "mru", ...
    call,         \* observation of the latest call of a search method
    writer,       \* history: per resident key, the search method that stored its entry
    rk            \* the latest ranked search on db and, for the same question, the one before

coreVars == <<cache, max_size, ttl_seconds, now>>
histVars == <<last, lru, run, mru>>
vars == <<cache, max_size, ttl_seconds, now, last, lru, run, mru, db, first, kp, th, track, rk,
          call, writer>>

\* ------------------------------------------------------------------ bounds

MaxCap == 3       \* largest max_size the store is constructed with
MaxTtl == 2       \* largest ttl_seconds the store is constructed with
MaxTime == 2      \* the clock stops advancing here
MaxQueryLen == 2  \* longest query of the key-builder check

\* --------------------------------------------------------------- optionals

NoneVal == [isNone |-> TRUE, val |-> <<>>]
Some(x) == [isNone |-> FALSE, val |-> x]

\* ----------------------------------------------------------------- strings

Whitespace == {" "}

\* str.lower() on one character
LowerChar(c) ==
    CASE c = "A" -> "a"
      [] c = "B" -> "b"
      [] c = "C" -> "c"
      [] c = "D" -> "d"
      [] OTHER -> c

\* str.upper() on one character
UpperChar(c) ==
    CASE c = "a" -> "A"
      [] c = "b" -> "B"
      [] c = "c" -> "C"
      [] c = "d" -> "D"
      [] OTHER -> c

Lower(s) == [i \in 1..Len(s) |-> LowerChar(s[i])]
Upper(s) == [i \in 1..Len(s) |-> UpperChar(s[i])]

RECURSIVE LStrip(_)
LStrip(s) ==
    IF s # <<>> /\ Head(s) \in Whitespace THEN LStrip(Tail(s)) ELSE s

RECURSIVE RStrip(_)
RStrip(s) ==
    IF s # <<>> /\ s[Len(s)] \in Whitespace
    THEN RStrip(SubSeq(s, 1, Len(s) - 1))
    ELSE s

\* str.strip()
Strip(s) == RStrip(LStrip(s))

\* --------------------------------------------------------------- key builder

DigitChar(d) ==
    CASE d = 0 -> "0" [] d = 1 -> "1" [] d = 2 -> "2" [] d = 3 -> "3"
      [] d = 4 -> "4" [] d = 5 -> "5" [] d = 6 -> "6" [] d = 7 -> "7"
      [] d = 8 -> "8" [] d = 9 -> "9"

RECURSIVE JsonNat(_)
JsonNat(n) ==
    IF n < 10 THEN <<DigitChar(n)>>
    ELSE JsonNat(n \div 10) \o <<DigitChar(n % 10)>>

\* json.dumps of an int
JsonInt(n) == IF n < 0 THEN <<"-">> \o JsonNat(0 - n) ELSE JsonNat(n)

\* json.dumps of a str: quoted, with quote and backslash escaped
JsonEscape(s) ==
    LET RECURSIVE esc(_)
        esc(t) ==
            IF t = <<>> THEN <<>>
            ELSE (IF Head(t) \in {"\"", "\\"} THEN <<"\\", Head(t)>> ELSE <<Head(t)>>)
                 \o esc(Tail(t))
    IN esc(s)

JsonStr(s) == <<"\"">> \o JsonEscape(s) \o <<"\"">>

\* None serialized like the empty string
JsonOptStrCollapse(o) == IF o.isNone THEN JsonStr(<<>>) ELSE JsonStr(o.val)

\* json.dumps of an Optional[str]: None is null
JsonOptStr(o) == IF o.isNone THEN <<"null">> ELSE JsonStr(o.val)

\* json.dumps(key_data, sort_keys=True): the four fields in alphabetical order
JsonDumps(key_data) ==
    <<"{", "\"faculty_code\": ">> \o JsonOptStr(key_data.faculty_code)
    \o <<", ", "\"limit\": ">> \o JsonInt(key_data.limit)
    \o <<", ", "\"query\": ">> \o JsonStr(key_data.query)
    \o <<", ", "\"university_id\": ">> \o JsonInt(key_data.university_id)
    \o <<"}">>

\* hashlib.md5(...).hexdigest(), taken to be injective: the digest stands for its input
Md5Hex(s) == <<"md5:">> \o s

\* the query as it enters the key
NormalizeQuery(query) == Strip(Lower(query))

\* the fields that enter the key
KeyData(university_id, query, faculty_code, limit) ==
    [university_id |-> university_id,
     query |-> NormalizeQuery(query),
     faculty_code |-> faculty_code,
     limit |-> limit]

\* MemoryCache._generate_key
generate_key(university_id, query, faculty_code, limit) ==
    Md5Hex(JsonDumps(KeyData(university_id, query, faculty_code, limit)))

\* _generate_key on a parameter record
KeyOf(p) == generate_key(p.university_id, p.query, p.faculty_code, p.limit)

\* ------------------------------------------------------------- OrderedDict

Keys(c) == {c[i].key : i \in 1..Len(c)}

IndexOf(c, k) == CHOOSE i \in 1..Len(c) : c[i].key = k

\* self.cache[key]
GetItem(c, k) == c[IndexOf(c, k)]

RemoveAt(c, i) == SubSeq(c, 1, i - 1) \o SubSeq(c, i + 1, Len(c))

\* del self.cache[key]
DelItem(c, k) == RemoveAt(c, IndexOf(c, k))

\* self.cache.move_to_end(key)
MoveToEnd(c, k) == RemoveAt(c, IndexOf(c, k)) \o <<GetItem(c, k)>>

\* self.cache.popitem(last=False)
PopItemFirst(c) == Tail(c)

\* self.cache[key] = value: a resident key keeps its position, a new key goes last
SetItem(c, k, data, ts) ==
    LET e == [key |-> k, data |-> data, ts |-> ts]
    IN IF k \in Keys(c)
       THEN [c EXCEPT ![IndexOf(c, k)] = e]
       ELSE Append(c, e)

\* ------------------------------------------------------------- MemoryCache

\* an entry of age ttl_seconds still counted as fresh
IsFreshInclusive(t, ts, ttl) == t - ts <= ttl

\* an entry expiring one second early
IsFreshEarly(t, ts, ttl) == t - ts + 1 < ttl

\* time.time() - timestamp < self.ttl_seconds
IsFresh(t, ts, ttl) == t - ts < ttl

\* an expired entry left in place
ExpireEntryKeep(c, k) == c

\* the else branch of get: del self.cache[key]
ExpireEntry(c, k) == DelItem(c, k)

\* a hit that leaves the order alone
TouchNothing(c, k) == c

\* a hit that also restamps the entry with the time of the read
TouchRefreshes(c, k) ==
    [i \in 1..Len(c) |-> IF MoveToEnd(c, k)[i].key = k
                         THEN [MoveToEnd(c, k)[i] EXCEPT !.ts = now]
                         ELSE MoveToEnd(c, k)[i]]

\* the hit branch of get: self.cache.move_to_end(key)
Touch(c, k) == MoveToEnd(c, k)

\* MemoryCache.get after the key is built: the store afterwards and the value returned
CacheGet(c, key, t, ttl) ==
    IF key \in Keys(c)
    THEN LET e == GetItem(c, key)
         IN IF IsFresh(t, e.ts, ttl)
            THEN [cache |-> Touch(c, key), ret |-> Some(e.data)]
            ELSE [cache |-> ExpireEntry(c, key), ret |-> NoneVal]
    ELSE [cache |-> c, ret |-> NoneVal]

\* a store of max_size entries not counted as full
IsFullOffByOne(c, m) == Len(c) > m

\* the loop condition of set: len(self.cache) >= self.max_size
IsFull(c, m) == Len(c) >= m

\* popitem() with its default last=True
EvictNewest(c) == SubSeq(c, 1, Len(c) - 1)

\* the loop body of set: self.cache.popitem(last=False)
EvictOne(c) == PopItemFirst(c)

\* the key the loop body removes: the part of c that EvictOne drops
EvictedKeys(c, d) ==
    SelectSeq([i \in 1..Len(c) |-> c[i].key], LAMBDA k : k \notin Keys(d))

\* while len(self.cache) >= self.max_size: self.cache.popitem(last=False)
\* popitem on an empty OrderedDict raises KeyError
RECURSIVE EvictLoop(_, _)
EvictLoop(c, m) ==
    IF IsFull(c, m)
    THEN IF c = <<>>
         THEN [cache |-> c, evicted |-> <<>>, raised |-> TRUE]
         ELSE LET d == EvictOne(c)
                  r == EvictLoop(d, m)
              IN [cache |-> r.cache,
                  evicted |-> EvictedKeys(c, d) \o r.evicted,
                  raised |-> r.raised]
    ELSE [cache |-> c, evicted |-> <<>>, raised |-> FALSE]

\* MemoryCache.set after the key is built: the store afterwards, the keys evicted,
\* and whether the call raised
CacheSet(c, key, results, t, m) ==
    LET ev == EvictLoop(c, m)
    IN IF ev.raised
       THEN ev
       ELSE [cache |-> SetItem(ev.cache, key, results, t),
             evicted |-> ev.evicted,
             raised |-> FALSE]

\* a clear that removes the entries one call at a time, oldest first
ClearDropsOldest(c) == IF c = <<>> THEN c ELSE Tail(c)

ClearKeepsNewest(c) == IF Len(c) > 1 THEN <<c[Len(c)]>> ELSE <<>>

\* MemoryCache.clear
CacheClear(c) == <<>>

CacheStatsStrict(c, t, ttl, m) ==
    LET total_entries == Len(c)
        expired_entries == Cardinality({i \in 1..Len(c) : t - c[i].ts > ttl})
    IN [total_entries |-> total_entries,
        expired_entries |-> expired_entries,
        active_entries |-> total_entries - expired_entries,
        max_size |-> m,
        ttl_seconds |-> ttl]

\* MemoryCache.get_stats
CacheStats(c, t, ttl, m) ==
    LET total_entries == Len(c)
        expired_entries == Cardinality({i \in 1..Len(c) : t - c[i].ts >= ttl})
    IN [total_entries |-> total_entries,
        expired_entries |-> expired_entries,
        active_entries |-> total_entries - expired_entries,
        max_size |-> m,
        ttl_seconds |-> ttl]

NoStats ==
    [total_entries |-> 0, expired_entries |-> 0, active_entries |-> 0,
     max_size |-> 0, ttl_seconds |-> 0]

\* ------------------------------------------------- the calls of MemoryCache

Req(u, q, f, l) == [university_id |-> u, query |-> q, faculty_code |-> f, limit |-> l]

\* the parameter tuples the callers pass: three keys, one of them under two spellings
Requests ==
    {Req(1, <<"a", "b">>, NoneVal, 50),
     Req(1, <<" ", "A", "B">>, NoneVal, 50),
     Req(1, <<"a", "b">>, Some(<<>>), 50),
     Req(2, <<"a", "b">>, NoneVal, 50)}

\* the results lists the callers store (rows by id)
Payloads == {<<>>, <<7>>}

NoReq == Req(0, <<>>, NoneVal, 0)

\* the key of each request, built once
RequestKey == [p \in Requests |-> KeyOf(p)]

\* what a caller, or an observer of the store, sees of one call:
\*   found    the entry under the call's key before the call (None: not resident)
\*   preLen   len(self.cache) before the call
\*   oldest   the key whose last access was the oldest before the call
Observe(op, p, key, results, ret, evicted, raised, stats) ==
    [op |-> op, p |-> p, key |-> key, results |-> results, ret |-> ret,
     found |-> IF key \in Keys(cache)
               THEN Some([data |-> GetItem(cache, key).data,
                          age |-> now - GetItem(cache, key).ts])
               ELSE NoneVal,
     preLen |-> Len(cache),
     oldest |-> IF lru = <<>> THEN <<>> ELSE Head(lru),
     evicted |-> evicted, raised |-> raised, stats |-> stats]

Idle ==
    [op |-> "none", p |-> NoReq, key |-> <<>>, results |-> <<>>, ret |-> NoneVal,
     found |-> NoneVal, preLen |-> 0, oldest |-> <<>>,
     evicted |-> <<>>, raised |-> FALSE, stats |-> NoStats]

\* the observation is recorded by the specifications that track calls
Seen(obs) == IF track = "calls" THEN obs ELSE Idle

Without(seq, ks) == SelectSeq(seq, LAMBDA k : k \notin ks)
Range(seq) == {seq[i] : i \in 1..Len(seq)}
KeySeq(c) == [i \in 1..Len(c) |-> c[i].key]

NoRun == [ok |-> FALSE, keys |-> <<>>]
NoMru == [active |-> FALSE, key |-> <<>>, others |-> {}, n |-> 0]

\* MemoryCache.get
get(p) ==
    LET key == RequestKey[p]
        r == CacheGet(cache, key, now, ttl_seconds)
        hit == ~r.ret.isNone
    IN /\ cache' = r.cache
       /\ last' = Seen(Observe("get", p, key, <<>>, r.ret, <<>>, FALSE, NoStats))
       /\ lru' = IF track # "calls" THEN lru
                 ELSE IF hit THEN Append(Without(lru, {key}), key)
                 ELSE IF key \in Keys(cache) THEN Without(lru, {key})
                 ELSE lru
       /\ run' = NoRun
       /\ mru' = IF track # "mru" THEN mru
                 ELSE IF hit
                 THEN [active |-> TRUE, key |-> key,
                       others |-> Keys(cache) \ {key},
                       n |-> Cardinality(Keys(cache) \ {key})]
                 ELSE IF key = mru.key \/ key \in mru.others THEN NoMru
                 ELSE mru
       /\ UNCHANGED <<max_size, ttl_seconds, now, db, first, kp, th, track, rk, call, writer>>

\* MemoryCache.set
set(p, results) ==
    LET key == RequestKey[p]
        r == CacheSet(cache, key, results, now, max_size)
        gone == Range(r.evicted)
        overwrite == key \in Keys(cache) \ gone
    IN /\ cache' = r.cache
       /\ last' = Seen(Observe("set", p, key, results, NoneVal, r.evicted, r.raised, NoStats))
       /\ lru' = IF track # "calls" THEN lru
                 ELSE IF r.raised \/ overwrite THEN Without(lru, gone)
                 ELSE Append(Without(lru, gone), key)
       /\ run' = IF track = "calls" /\ run.ok /\ key \notin Range(run.keys) /\ Len(run.keys) <= max_size
                 THEN [ok |-> TRUE, keys |-> Append(run.keys, key)]
                 ELSE NoRun
       /\ mru' = IF track # "mru" THEN mru
                 ELSE IF ~mru.active \/ key \in Keys(cache) THEN NoMru
                 ELSE [mru EXCEPT !.others = @ \ gone]
       /\ UNCHANGED <<max_size, ttl_seconds, now, db, first, kp, th, track, rk, call, writer>>

\* MemoryCache.clear
clear ==
    /\ cache' = CacheClear(cache)
    /\ last' = Seen(Observe("clear", NoReq, <<>>, <<>>, NoneVal, <<>>, FALSE, NoStats))
    /\ lru' = <<>>
    /\ run' = NoRun
    /\ mru' = NoMru
    /\ UNCHANGED <<max_size, ttl_seconds, now, db, first, kp, th, track, rk, call, writer>>

\* a get_stats that drops the entries it counts as expired
get_stats_reaps ==
    /\ cache' = SelectSeq(cache, LAMBDA e : IsFresh(now, e.ts, ttl_seconds))
    /\ last' = Seen(Observe("get_stats", NoReq, <<>>, <<>>, NoneVal, <<>>, FALSE,
                            CacheStats(cache, now, ttl_seconds, max_size)))
    /\ UNCHANGED <<lru, run, mru, max_size, ttl_seconds, now, db, first, kp, th, track, rk, call, writer>>

\* MemoryCache.get_stats
get_stats ==
    /\ last' = Seen(Observe("get_stats", NoReq, <<>>, <<>>, NoneVal, <<>>, FALSE,
                            CacheStats(cache, now, ttl_seconds, max_size)))
    /\ UNCHANGED <<cache, lru, run, mru, max_size, ttl_seconds, now, db, first, kp, th, track, rk, call, writer>>

NoDb == <<>>
NoFirst == NoneVal
NoWriter == <<>>
\* what the caller of a search sees, and what the wrapper did for it:
\*   ret      the rows returned            raised   the exception that reached the caller
\*   invoked  how often func was called    failure  the exception func raised
NoCall ==
    [op |-> "none", method |-> "", university_id |-> 0, query |-> <<>>, args |-> <<>>,
     ret |-> <<>>, hit |-> FALSE, bypass |-> FALSE, writer |-> "",
     raised |-> "", invoked |-> 0, failure |-> ""]
NoKp == <<>>
NoTh == <<>>
NoRk ==
    [op |-> "none", query |-> <<>>, limit |-> 0, out |-> <<>>, moved |-> FALSE,
     before |-> NoneVal]

\* the clock advances between calls
Tick ==
    /\ now < MaxTime
    /\ now' = now + 1
    /\ last' = Idle
    /\ call' = NoCall
    /\ UNCHANGED <<cache, max_size, ttl_seconds, lru, run, mru, db, first, kp, th, track, rk, writer>>


\* MemoryCache.__init__ with max_size >= 1 and ttl_seconds >= 1, at time 0
InitStore ==
    /\ cache = <<>>
    /\ max_size \in 1..MaxCap
    /\ ttl_seconds \in 1..MaxTtl
    /\ now = 0
    /\ last = Idle
    /\ lru = <<>>
    /\ mru = NoMru

Init ==
    /\ InitStore
    /\ track = "calls"
    /\ run = [ok |-> TRUE, keys |-> <<>>]
    /\ db = NoDb
    /\ first = NoFirst
    /\ kp = NoKp
    /\ th = NoTh
    /\ call = NoCall
    /\ writer = NoWriter
    /\ rk = NoRk

InitMru ==
    /\ InitStore
    /\ track = "mru"
    /\ run = NoRun
    /\ db = NoDb
    /\ first = NoFirst
    /\ kp = NoKp
    /\ th = NoTh
    /\ call = NoCall
    /\ writer = NoWriter
    /\ rk = NoRk

Next ==
    \/ \E p \in Requests : get(p)
    \/ \E p \in Requests, results \in Payloads : set(p, results)
    \/ clear
    \/ get_stats
    \/ Tick

\* one caller at a time: every call runs to completion before the next starts
Spec == Init /\ [][Next]_vars

\* the same calls, recording the entries resident at the latest get hit
SpecMru == InitMru /\ [][Next]_vars

\* ------------------------------------------------------- the key builder alone

\* every string of length <= n over the alphabet
RECURSIVE StringsUpTo(_, _)
StringsUpTo(alphabet, n) ==
    IF n = 0 THEN {<<>>}
    ELSE LET shorter == StringsUpTo(alphabet, n - 1)
         IN shorter \cup {Append(t, c) : t \in shorter, c \in alphabet}

QueryAlphabet == {"a", "A", "b", " "}

\* the parameter tuples given to _generate_key
KeyParams ==
    {Req(u, q, f, l) :
        u \in {1, 15},
        q \in StringsUpTo(QueryAlphabet, MaxQueryLen),
        f \in {NoneVal, Some(<<>>), Some(<<"a">>)},
        l \in {5, 50}}

NotBuilt == <<>>

\* two parameter tuples, before their keys are built
InitKey ==
    /\ kp \in [a : KeyParams, b : KeyParams, ka : {NotBuilt}, kb : {NotBuilt}, built : {FALSE}]
    /\ cache = <<>>
    /\ max_size = 1
    /\ ttl_seconds = 1
    /\ now = 0
    /\ last = Idle
    /\ lru = <<>>
    /\ run = NoRun
    /\ mru = NoMru
    /\ db = NoDb
    /\ first = NoFirst
    /\ th = NoTh
    /\ call = NoCall
    /\ writer = NoWriter
    /\ rk = NoRk
    /\ track = "keys"

\* _generate_key applied to both tuples
BuildKeys ==
    /\ ~kp.built
    /\ kp' = [kp EXCEPT !.ka = KeyOf(kp.a), !.kb = KeyOf(kp.b), !.built = TRUE]
    /\ UNCHANGED <<cache, max_size, ttl_seconds, now, last, lru, run, mru, db, first, th, track, rk, call, writer>>

NextKey == BuildKeys

SpecKey == InitKey /\ [][NextKey]_vars

\* ------------------------------------------------------------ CourseService

\* Course rows: id, university_id, code, name
Row(id, u, code, name) == [id |-> id, university_id |-> u, code |-> code, name |-> name]

CourseCAB == Row(1, 1, <<"C", "A", "B">>, <<"d">>)
CourseAB == Row(2, 1, <<"A", "B">>, <<"c">>)

\* the states of the courses table, rows in the order an unordered query yields them
DbValues == {<<CourseCAB, CourseAB>>, <<>>}

\* the row as the queries select it: (Course.id, Course.code, Course.name)
Summary(row) == <<row.id, row.code, row.name>>

\* column ILIKE 'pattern%'
ILikePrefix(s, q) ==
    /\ Len(q) <= Len(s)
    /\ Lower(SubSeq(s, 1, Len(q))) = Lower(q)

\* column ILIKE '%pattern%'
ILikeContains(s, q) ==
    \E i \in 0..(Len(s) - Len(q)) : Lower(SubSeq(s, i + 1, i + Len(q))) = Lower(q)

\* .limit(limit)
Take(rows, limit) == SubSeq(rows, 1, IF limit < Len(rows) THEN limit ELSE Len(rows))

\* the limit the method runs with: its positional argument, or its default
MethodLimit(args) == IF Len(args) > 0 THEN args[1] ELSE 50

\* CourseService.search_courses_summary
search_courses_summary(table, university_id, query, limit) ==
    LET matches(row) ==
            /\ row.university_id = university_id
            /\ (ILikeContains(row.name, query) \/ ILikeContains(row.code, query))
    IN {[i \in 1..Len(Take(SelectSeq(table, matches), limit)) |->
            Summary(Take(SelectSeq(table, matches), limit)[i])]}

\* the code points of the characters, for ORDER BY
CharOrd(c) ==
    CASE c = " " -> 32
      [] c = "A" -> 65 [] c = "B" -> 66 [] c = "C" -> 67 [] c = "D" -> 68
      [] c = "a" -> 97 [] c = "b" -> 98 [] c = "c" -> 99 [] c = "d" -> 100

RECURSIVE StrLess(_, _)
StrLess(a, b) ==
    IF b = <<>> THEN FALSE
    ELSE IF a = <<>> THEN TRUE
    ELSE IF CharOrd(Head(a)) # CharOrd(Head(b)) THEN CharOrd(Head(a)) < CharOrd(Head(b))
    ELSE StrLess(Tail(a), Tail(b))

\* the case(...) expression of order_by
Tier(row, query) ==
    LET query_upper == Upper(query)
    IN IF row.code = query_upper THEN 1
       ELSE IF ILikePrefix(row.code, query_upper) THEN 2
       ELSE IF ILikePrefix(row.name, query) THEN 3
       ELSE 4

RankedBeforeNameFirst(a, b, query) ==
    \/ Tier(a, query) < Tier(b, query)
    \/ /\ Tier(a, query) = Tier(b, query)
       /\ \/ StrLess(a.name, b.name)
          \/ a.name = b.name /\ ~StrLess(b.code, a.code)

\* order_by(case(...), Course.code, Course.name): row a may come before row b
RankedBefore(a, b, query) ==
    \/ Tier(a, query) < Tier(b, query)
    \/ /\ Tier(a, query) = Tier(b, query)
       /\ \/ StrLess(a.code, b.code)
          \/ a.code = b.code /\ ~StrLess(b.name, a.name)

\* every arrangement of a set of rows
RECURSIVE Arrangements(_)
Arrangements(rows) ==
    IF rows = {} THEN {<<>>}
    ELSE UNION {{<<r>> \o rest : rest \in Arrangements(rows \ {r})} : r \in rows}

TruncatesThenRanks(table, university_id, query, limit) ==
    LET query_upper == Upper(query)
        matches(row) ==
            /\ row.university_id = university_id
            /\ \/ ILikeContains(row.code, query_upper)
               \/ ILikeContains(row.name, query)
        kept == Range(Take(SelectSeq(table, matches), limit))
        ordered == {o \in Arrangements(kept) :
                        \A i \in 1..(Len(o) - 1) : RankedBefore(o[i], o[i + 1], query)}
    IN {[i \in 1..Len(o) |-> Summary(o[i])] : o \in ordered}

\* CourseService.search_courses_summary_optimized: every order the ORDER BY allows
search_courses_summary_optimized(table, university_id, query, limit) ==
    LET query_upper == Upper(query)
        matching == {table[i] : i \in {j \in 1..Len(table) :
                        /\ table[j].university_id = university_id
                        /\ \/ ILikePrefix(table[j].code, query_upper)
                           \/ ILikeContains(table[j].code, query_upper)
                           \/ ILikePrefix(table[j].name, query)
                           \/ ILikeContains(table[j].name, query)}}
        ordered == {o \in Arrangements(matching) :
                        \A i \in 1..(Len(o) - 1) : RankedBefore(o[i], o[i + 1], query)}
    IN {[i \in 1..Len(Take(o, limit)) |-> Summary(Take(o, limit)[i])] : o \in ordered}

Methods == {"search_courses_summary", "search_courses_summary_optimized"}

\* func(self, university_id, query, *args, **kwargs): the results the method may return
Func(method, table, university_id, query, args) ==
    IF method = "search_courses_summary"
    THEN search_courses_summary(table, university_id, query, MethodLimit(args))
    ELSE search_courses_summary_optimized(table, university_id, query, MethodLimit(args))

\* ------------------------------------------------------ cached_course_search

\* wrapper: limit from the positional arguments
WrapperLimit(args) ==
    IF Len(args) > 0
    THEN (IF Len(args) = 1 THEN args[1] ELSE args[2])
    ELSE 50

\* wrapper: faculty_code from the positional arguments
WrapperFaculty(args) == IF Len(args) > 1 THEN Some(args[1]) ELSE NoneVal

SkipsCacheUntrimmed(query) == Len(query) < 2

\* wrapper: len(query.strip()) < 2
SkipsCache(query) == Len(Strip(query)) < 2

\* the calls the endpoints make: search(uni.id, q, limit) and search(uni.id, q)
SearchQueries == {<<"a", "b">>, <<"b">>}

\* the same with a query that is long enough only before it is trimmed
FaultQueries == SearchQueries \cup {<<" ", "b">>}

\* a query with a trailing space, and every query the wrapper is called with
PaddedQueries == {<<"a", "b", " ">>}
WrapperQueries == FaultQueries \cup PaddedQueries
SearchArgs == {<<>>, <<1>>}
SearchUniversities == {1}

SearchParams ==
    {Req(u, q, WrapperFaculty(a), WrapperLimit(a)) :
        u \in SearchUniversities, q \in WrapperQueries, a \in SearchArgs}

\* the key of each call, built once
SearchKey == [p \in SearchParams |-> KeyOf(p)]

\* what each method returns for each call on each table, computed once
Backing ==
    [method \in Methods, table \in DbValues, u \in SearchUniversities,
     q \in WrapperQueries, a \in SearchArgs |-> Func(method, table, u, q, a)]

\* a store larger than the number of keys behaves like one that holds them all
SearchCaps == 1..Cardinality({SearchKey[p] : p \in {x \in SearchParams : ~SkipsCache(x.query)}})

\* what the decorated method does when the wrapper calls it: it returns its
\* rows, or the query on the session raises
Returned(results) == [raised |-> "", results |-> results]
Failed(error) == [raised |-> error, results |-> <<>>]
FuncOutcomes ==
    [method \in Methods, table \in DbValues, u \in SearchUniversities,
     q \in WrapperQueries, a \in SearchArgs |->
        {Returned(results) : results \in Backing[method, table, u, q, a]}
            \cup {Failed("SQLAlchemyError")}]

\* wrapper, lines 121-124 after a miss: func raised and line 124 is never
\* reached, or course_search_cache.set stores what func returned
StoreAlways(c, key, outcome, t, m) == CacheSet(c, key, outcome.results, t, m)

StoreAfter(c, key, outcome, t, m) ==
    IF outcome.raised # ""
    THEN [cache |-> c, evicted |-> <<>>, raised |-> FALSE]
    ELSE CacheSet(c, key, outcome.results, t, m)

\* a probe that takes an empty payload for a miss
IsHitTruthy(ret) == ~ret.isNone /\ ret.val # <<>>

\* wrapper, line 117: if cached_results is not None
IsHit(ret) == ~ret.isNone

\* cached_course_search.wrapper around one of the two decorated methods, the
\* method ending with outcome when the wrapper calls it
search(method, university_id, query, args, outcome) ==
    LET faculty_code == WrapperFaculty(args)
        limit == WrapperLimit(args)
        key == SearchKey[Req(university_id, query, faculty_code, limit)]
        got == CacheGet(cache, key, now, ttl_seconds)
        put == StoreAfter(got.cache, key, outcome, now, max_size)
        error == IF outcome.raised # "" THEN outcome.raised
                 ELSE IF put.raised THEN "KeyError"
                 ELSE ""
        r == [method |-> method, university_id |-> university_id,
              query |-> query, args |-> args]
        seen(ret, hit, bypass, raised, invoked, failure) ==
            [op |-> "search", method |-> method, university_id |-> university_id,
             query |-> query, args |-> args, ret |-> ret, hit |-> hit, bypass |-> bypass,
             writer |-> IF hit /\ track = "search" THEN writer[key] ELSE "",
             raised |-> raised, invoked |-> invoked, failure |-> failure]
    IN /\ outcome \in FuncOutcomes[method, db, university_id, query, args]
       /\ IF SkipsCache(query)
          THEN /\ call' = seen(outcome.results, FALSE, TRUE, outcome.raised, 1, outcome.raised)
               /\ UNCHANGED <<cache, writer, first>>
          ELSE IF IsHit(got.ret)
          THEN /\ cache' = got.cache
               /\ call' = seen(got.ret.val, TRUE, FALSE, "", 0, "")
               /\ first' = IF track = "search" /\ first.isNone
                           THEN Some([r |-> r, result |-> got.ret.val, t |-> now,
                                      ts |-> GetItem(cache, key).ts])
                           ELSE first
               /\ UNCHANGED writer
          ELSE /\ cache' = put.cache
               /\ call' = seen(IF error = "" THEN outcome.results ELSE <<>>,
                               FALSE, FALSE, error, 1, outcome.raised)
               /\ first' = IF track # "search" \/ error # "" \/ (~first.isNone /\ first.val.r = r)
                           THEN first
                           ELSE Some([r |-> r, result |-> outcome.results, t |-> now, ts |-> now])
               /\ writer' = IF track = "search"
                            THEN [k \in Keys(put.cache) |-> IF k = key THEN method ELSE writer[k]]
                            ELSE writer
       /\ UNCHANGED <<max_size, ttl_seconds, now, last, lru, run, mru, db, kp, th, track, rk>>

\* q: str = Query(..., min_length=1)
MinLength == 1

\* what the search endpoints can be asked with and turn away
RejectedQueries == {<<>>}

\* search_courses_for_dropdown / search_courses_optimized asked with a q that
\* fails the validation of Query: the request ends with 422 before the body runs
rejected(method, query) ==
    /\ Len(query) < MinLength
    /\ call' = [NoCall EXCEPT !.op = "rejected", !.method = method, !.query = query,
                              !.raised = "RequestValidationError"]
    /\ UNCHANGED <<cache, max_size, ttl_seconds, now, last, lru, run, mru, db, first, kp, th, track, rk, writer>>

\* endpoints.clear_cache: course_search_cache.clear()
clear_cache ==
    /\ cache' = CacheClear(cache)
    /\ call' = [NoCall EXCEPT !.op = "clear_cache"]
    /\ first' = NoFirst
    /\ writer' = NoWriter
    /\ UNCHANGED <<max_size, ttl_seconds, now, last, lru, run, mru, db, kp, th, track, rk>>

\* the courses table changes (a scrape, a migration)
db_change ==
    /\ db' \in DbValues \ {db}
    /\ call' = [NoCall EXCEPT !.op = "db_change"]
    /\ first' = NoFirst
    /\ UNCHANGED <<cache, max_size, ttl_seconds, now, last, lru, run, mru, kp, th, track, rk, writer>>

InitSearch ==
    /\ InitStore
    /\ max_size \in SearchCaps
    /\ track = "search"
    /\ run = NoRun
    /\ db \in DbValues
    /\ first = NoFirst
    /\ kp = NoKp
    /\ th = NoTh
    /\ call = NoCall
    /\ writer = NoWriter
    /\ rk = NoRk

NextSearch ==
    \/ \E method \in Methods, u \in SearchUniversities, q \in SearchQueries, a \in SearchArgs :
          \E outcome \in FuncOutcomes[method, db, u, q, a] : search(method, u, q, a, outcome)
    \/ clear_cache
    \/ db_change
    \/ Tick

\* the decorated search methods, called one at a time through the wrapper
SpecSearch == InitSearch /\ [][NextSearch]_vars

\* the wrapper on a courses table that does not change
InitSteady ==
    /\ InitStore
    /\ max_size \in SearchCaps
    /\ track = "steady"
    /\ run = NoRun
    /\ db \in DbValues
    /\ first = NoFirst
    /\ kp = NoKp
    /\ th = NoTh
    /\ call = NoCall
    /\ writer = NoWriter
    /\ rk = NoRk

NextSteady ==
    \/ \E method \in Methods, u \in SearchUniversities,
          q \in SearchQueries \cup PaddedQueries, a \in SearchArgs :
          \E outcome \in FuncOutcomes[method, db, u, q, a] : search(method, u, q, a, outcome)
    \/ clear_cache
    \/ Tick

SpecSteady == InitSteady /\ [][NextSteady]_vars

\* max_size=int(os.getenv('COURSE_CACHE_SIZE', '1000')): any integer
EnvSizes == {-1, 0} \cup SearchCaps

InitFaults ==
    /\ cache = <<>>
    /\ max_size \in EnvSizes
    /\ ttl_seconds \in 1..MaxTtl
    /\ now = 0
    /\ last = Idle
    /\ lru = <<>>
    /\ mru = NoMru
    /\ track = "faults"
    /\ run = NoRun
    /\ db \in DbValues
    /\ first = NoFirst
    /\ kp = NoKp
    /\ th = NoTh
    /\ call = NoCall
    /\ writer = NoWriter
    /\ rk = NoRk

NextFaults ==
    \/ \E method \in Methods, u \in SearchUniversities, q \in FaultQueries, a \in SearchArgs :
          \E outcome \in FuncOutcomes[method, db, u, q, a] : search(method, u, q, a, outcome)
    \/ \E method \in Methods, q \in RejectedQueries : rejected(method, q)
    \/ clear_cache
    \/ db_change
    \/ Tick

\* the search endpoints with every query and every configured size, the
\* backing search failing at will
SpecFaults == InitFaults /\ [][NextFaults]_vars

\* --------------------------------------------------------- ranked search

\* the courses table holds at most this many rows
MaxRows == 3

\* rows the courses table can hold: code and name are any strings (nullable=False
\* admits the empty string, in any letter case), and nothing keeps
\* (university_id, code) unique
RankRows ==
    {Row(1, 1, <<"A", "B">>, <<"c">>),
     Row(2, 1, <<"a", "b">>, <<"c">>),
     Row(3, 1, <<"A", "B">>, <<"c">>),
     Row(5, 1, <<"C", "A", "B">>, <<"d">>),
     Row(6, 1, <<"A", "B", "C">>, <<"d">>),
     Row(7, 1, <<>>, <<"A", "b", "d">>),
     Row(8, 2, <<"A", "B">>, <<"c">>)}

\* the tables of at most MaxRows of these rows, in every storage order
RankTables ==
    UNION {Arrangements(rows) :
              rows \in {some \in SUBSET RankRows : Cardinality(some) \in 1..MaxRows}}

RankUniversity == 1
RankQueries == {<<"a", "b">>, <<"A", "B">>}
RankLimits == {1, 2, 50}

\* what the ranked search may return for each question on each table, computed once
Ranked ==
    [table \in RankTables, query \in RankQueries, limit \in RankLimits |->
        search_courses_summary_optimized(table, RankUniversity, query, limit)]

\* search_courses_summary_optimized(RankUniversity, query, limit) returning out;
\* before is what the call before returned when it asked the same, and whether
\* the table has changed its storage order since
rank(query, limit, out) ==
    /\ out \in Ranked[db, query, limit]
    /\ rk' = [op |-> "rank", query |-> query, limit |-> limit, out |-> out,
              moved |-> FALSE,
              before |-> IF rk.op = "rank" /\ rk.query = query /\ rk.limit = limit
                         THEN Some([out |-> rk.out, moved |-> rk.moved])
                         ELSE NoneVal]
    /\ UNCHANGED <<cache, max_size, ttl_seconds, now, last, lru, run, mru, db, first, kp, th, track, call, writer>>

\* the table comes to yield the same rows in another order (rows rewritten by
\* an update, another plan)
reorder ==
    /\ db' \in Arrangements(Range(db)) \ {db}
    /\ rk' = [rk EXCEPT !.moved = TRUE]
    /\ UNCHANGED <<cache, max_size, ttl_seconds, now, last, lru, run, mru, first, kp, th, track, call, writer>>

InitRank ==
    /\ cache = <<>>
    /\ max_size = 1
    /\ ttl_seconds = 1
    /\ now = 0
    /\ last = Idle
    /\ lru = <<>>
    /\ mru = NoMru
    /\ track = "rank"
    /\ run = NoRun
    /\ db \in RankTables
    /\ first = NoFirst
    /\ kp = NoKp
    /\ th = NoTh
    /\ call = NoCall
    /\ writer = NoWriter
    /\ rk = NoRk

NextRank ==
    \/ \E query \in RankQueries, limit \in RankLimits :
          \E out \in Ranked[db, query, limit] :
              rank(query, limit, out)
    \/ reorder

\* the ranked search called again and again on a table that keeps its rows
SpecRank == InitRank /\ [][NextRank]_vars

\* --------------------------------------------- every configured max_size

\* MemoryCache(max_size=int(os.getenv('COURSE_CACHE_SIZE', '1000')), ...): the
\* sizes the environment can configure include zero and negative ones
StoreSizes == {-1, 0} \cup 1..MaxCap

InitSizes ==
    /\ cache = <<>>
    /\ max_size \in StoreSizes
    /\ ttl_seconds \in 1..MaxTtl
    /\ now = 0
    /\ last = Idle
    /\ lru = <<>>
    /\ mru = NoMru
    /\ track = "calls"
    /\ run = NoRun
    /\ db = NoDb
    /\ first = NoFirst
    /\ kp = NoKp
    /\ th = NoTh
    /\ call = NoCall
    /\ writer = NoWriter
    /\ rk = NoRk

\* get, set, clear and get_stats, one call at a time, on a store of any size
SpecSizes == InitSizes /\ [][Next]_vars

\* ------------------------------------------- threads on course_search_cache

\* the endpoints run in a thread pool and share course_search_cache; a thread
\* runs one statement of get, set or clear at a time (each OrderedDict
\* operation is one step), and nothing in MemoryCache takes a lock
Threads == {"t1", "t2"}

\* one spelling per key
ThreadRequests == {p \in Requests : p.query = <<"a", "b">>}
ThreadPayloads == {<<7>>}

\* a thread between calls; out is how its latest call ended
Resting(out, ret) ==
    [pc |-> "idle", key |-> <<>>, cached_data |-> <<>>, timestamp |-> 0,
     results |-> <<>>, out |-> out, ret |-> ret]

At(t, pc) == th[t].pc = pc
Goto(t, pc) == th' = [th EXCEPT ![t].pc = pc]
Return(t, ret) == th' = [th EXCEPT ![t] = Resting("returned", ret)]
Raise(t) == th' = [th EXCEPT ![t] = Resting("KeyError", NoneVal)]

\* an iterator over self.cache.values() raises RuntimeError at its next step
\* once the keys of the OrderedDict or their order have changed: c is the
\* store the step leaves
Invalidated(frames, c) ==
    [u \in Threads |->
        IF frames[u].pc = "gs_72_next" /\ KeySeq(c) # KeySeq(cache)
        THEN [frames[u] EXCEPT !.dirty = TRUE]
        ELSE frames[u]]

GotoAfter(t, pc, c) == th' = Invalidated([th EXCEPT ![t].pc = pc], c)
ReturnAfter(t, ret, c) == th' = Invalidated([th EXCEPT ![t] = Resting("returned", ret)], c)
RaiseRuntime(t) == th' = [th EXCEPT ![t] = Resting("RuntimeError", NoneVal)]

threadFrame == <<max_size, ttl_seconds, now, last, lru, run, mru, db, first, kp, track, rk, call, writer>>

\* get, line 35: key = self._generate_key(...)
get_35(t, p) ==
    /\ At(t, "idle")
    /\ th' = [th EXCEPT ![t] = [Resting("", NoneVal) EXCEPT !.pc = "get_37", !.key = RequestKey[p]]]
    /\ UNCHANGED <<cache, threadFrame>>

\* get, line 37: if key in self.cache
get_37(t) ==
    /\ At(t, "get_37")
    /\ IF th[t].key \in Keys(cache) THEN Goto(t, "get_38") ELSE Return(t, NoneVal)
    /\ UNCHANGED <<cache, threadFrame>>

\* get, line 38: cached_data, timestamp = self.cache[key]
get_38(t) ==
    /\ At(t, "get_38")
    /\ IF th[t].key \in Keys(cache)
       THEN th' = [th EXCEPT ![t].pc = "get_41",
                             ![t].cached_data = GetItem(cache, th[t].key).data,
                             ![t].timestamp = GetItem(cache, th[t].key).ts]
       ELSE Raise(t)
    /\ UNCHANGED <<cache, threadFrame>>

\* get, line 41: if time.time() - timestamp < self.ttl_seconds
get_41(t) ==
    /\ At(t, "get_41")
    /\ IF IsFresh(now, th[t].timestamp, ttl_seconds) THEN Goto(t, "get_43") ELSE Goto(t, "get_47")
    /\ UNCHANGED <<cache, threadFrame>>

\* get, lines 43-44: self.cache.move_to_end(key); return cached_data
get_43(t) ==
    /\ At(t, "get_43")
    /\ IF th[t].key \in Keys(cache)
       THEN /\ cache' = Touch(cache, th[t].key)
            /\ ReturnAfter(t, Some(th[t].cached_data), Touch(cache, th[t].key))
       ELSE cache' = cache /\ Raise(t)
    /\ UNCHANGED threadFrame

\* get, lines 47-49: del self.cache[key]; return None
get_47(t) ==
    /\ At(t, "get_47")
    /\ IF th[t].key \in Keys(cache)
       THEN /\ cache' = ExpireEntry(cache, th[t].key)
            /\ ReturnAfter(t, NoneVal, ExpireEntry(cache, th[t].key))
       ELSE cache' = cache /\ Raise(t)
    /\ UNCHANGED threadFrame

\* set, line 54: key = self._generate_key(...)
set_54(t, p, results) ==
    /\ At(t, "idle")
    /\ th' = [th EXCEPT ![t] = [Resting("", NoneVal) EXCEPT
                                    !.pc = "set_57", !.key = RequestKey[p], !.results = results]]
    /\ UNCHANGED <<cache, threadFrame>>

\* set, line 57: while len(self.cache) >= self.max_size
set_57(t) ==
    /\ At(t, "set_57")
    /\ IF IsFull(cache, max_size) THEN Goto(t, "set_58") ELSE Goto(t, "set_60")
    /\ UNCHANGED <<cache, threadFrame>>

\* set, line 58: self.cache.popitem(last=False)
set_58(t) ==
    /\ At(t, "set_58")
    /\ IF cache # <<>>
       THEN /\ cache' = EvictOne(cache)
            /\ GotoAfter(t, "set_57", EvictOne(cache))
       ELSE cache' = cache /\ Raise(t)
    /\ UNCHANGED threadFrame

\* set, line 60: self.cache[key] = (results, time.time())
set_60(t) ==
    /\ At(t, "set_60")
    /\ cache' = SetItem(cache, th[t].key, th[t].results, now)
    /\ ReturnAfter(t, NoneVal, SetItem(cache, th[t].key, th[t].results, now))
    /\ UNCHANGED threadFrame

\* clear, line 64: self.cache.clear()
clear_64(t) ==
    /\ At(t, "idle")
    /\ cache' = CacheClear(cache)
    /\ ReturnAfter(t, NoneVal, CacheClear(cache))
    /\ UNCHANGED threadFrame

InitThreads ==
    /\ InitStore
    /\ track = "threads"
    /\ run = NoRun
    /\ db = NoDb
    /\ first = NoFirst
    /\ kp = NoKp
    /\ th = [t \in Threads |-> Resting("", NoneVal)]
    /\ call = NoCall
    /\ writer = NoWriter
    /\ rk = NoRk

NextThreads ==
    \/ \E t \in Threads, p \in ThreadRequests : get_35(t, p)
    \/ \E t \in Threads : get_37(t)
    \/ \E t \in Threads : get_38(t)
    \/ \E t \in Threads : get_41(t)
    \/ \E t \in Threads : get_43(t)
    \/ \E t \in Threads : get_47(t)
    \/ \E t \in Threads, p \in ThreadRequests, results \in ThreadPayloads : set_54(t, p, results)
    \/ \E t \in Threads : set_57(t)
    \/ \E t \in Threads : set_58(t)
    \/ \E t \in Threads : set_60(t)
    \/ \E t \in Threads : clear_64(t)
    \/ Tick

\* the threads' statements in any interleaving
SpecThreads == InitThreads /\ [][NextThreads]_vars

\* the locals of get_stats after line 68
StatsLocals(total_entries) ==
    [pc |-> "gs_70", key |-> <<>>, cached_data |-> <<>>, timestamp |-> 0,
     results |-> <<>>, out |-> "", ret |-> NoneVal,
     total_entries |-> total_entries, expired_entries |-> 0, current_time |-> 0,
     it |-> 0, size |-> 0, dirty |-> FALSE]

\* get_stats, line 68: total_entries = len(self.cache)
gs_68(t) ==
    /\ At(t, "idle")
    /\ th' = [th EXCEPT ![t] = StatsLocals(Len(cache))]
    /\ UNCHANGED <<cache, threadFrame>>

\* get_stats, lines 69-70: expired_entries = 0; current_time = time.time()
gs_70(t) ==
    /\ At(t, "gs_70")
    /\ th' = [th EXCEPT ![t].pc = "gs_72", ![t].current_time = now]
    /\ UNCHANGED <<cache, threadFrame>>

\* get_stats, line 72: the iterator of self.cache.values() is created
gs_72(t) ==
    /\ At(t, "gs_72")
    /\ th' = [th EXCEPT ![t].pc = "gs_72_next", ![t].size = Len(cache),
                        ![t].it = 0, ![t].dirty = FALSE]
    /\ UNCHANGED <<cache, threadFrame>>

\* get_stats, lines 72-82: one step of the iterator with the body of the
\* loop, or the end of the loop and the return of the dict
gs_72_next(t) ==
    /\ At(t, "gs_72_next")
    /\ IF th[t].it = th[t].size
       THEN Return(t, Some([total_entries |-> th[t].total_entries,
                            expired_entries |-> th[t].expired_entries,
                            active_entries |-> th[t].total_entries - th[t].expired_entries,
                            max_size |-> max_size,
                            ttl_seconds |-> ttl_seconds]))
       ELSE IF th[t].dirty
       THEN RaiseRuntime(t)
       ELSE th' = [th EXCEPT ![t].it = @ + 1,
                             ![t].expired_entries =
                                 IF th[t].current_time - cache[th[t].it + 1].ts >= ttl_seconds
                                 THEN @ + 1 ELSE @]
    /\ UNCHANGED <<cache, threadFrame>>

\* the thread that serves the writes and the thread that serves the reads
Writers == {"t1"}
Readers == {"t2"}

\* the requests of one university: two keys
ReaderRequests == {p \in ThreadRequests : p.university_id = 1}

NextReaders ==
    \/ \E t \in Readers, p \in ReaderRequests : get_35(t, p)
    \/ \E t \in Threads : get_37(t)
    \/ \E t \in Threads : get_38(t)
    \/ \E t \in Threads : get_41(t)
    \/ \E t \in Threads : get_43(t)
    \/ \E t \in Threads : get_47(t)
    \/ \E t \in Writers, p \in ReaderRequests, results \in ThreadPayloads : set_54(t, p, results)
    \/ \E t \in Threads : set_57(t)
    \/ \E t \in Threads : set_58(t)
    \/ \E t \in Threads : set_60(t)
    \/ \E t \in Writers : clear_64(t)
    \/ \E t \in Readers : gs_68(t)
    \/ \E t \in Threads : gs_70(t)
    \/ \E t \in Threads : gs_72(t)
    \/ \E t \in Threads : gs_72_next(t)
    \/ Tick

\* a thread that sets and clears beside a thread that reads
SpecReaders == InitThreads /\ [][NextReaders]_vars

\* a thread between calls of a decorated method; out is how its latest call
\* ended, hit whether it returned a cached payload, overlapped whether another
\* thread's backing search was running when it probed the cache
WrapperResting(out, ret, key, hit, overlapped) ==
    [pc |-> "idle", method |-> "", university_id |-> 0, query |-> <<>>, args |-> <<>>,
     key |-> key, results |-> <<>>, out |-> out, ret |-> ret, hit |-> hit,
     overlapped |-> overlapped]

\* a store that is held while some other thread's backing search runs
StoreHeldAcrossSearch(t) == \A u \in Threads \ {t} : th[u].pc # "w_121"

\* the wrapper and MemoryCache take no lock: a call of get or set never waits
\* for another thread
StoreFree(t) == TRUE

\* wrapper, lines 96-113: the arguments are parsed, and a short query goes to
\* the method directly
w_112(t, method, university_id, query, args) ==
    /\ At(t, "idle")
    /\ th' = [th EXCEPT ![t] =
                 [WrapperResting("", <<>>, <<>>, FALSE, FALSE) EXCEPT
                     !.pc = IF SkipsCache(query) THEN "w_113" ELSE "w_116",
                     !.method = method, !.university_id = university_id,
                     !.query = query, !.args = args,
                     !.key = SearchKey[Req(university_id, query, WrapperFaculty(args),
                                           WrapperLimit(args))]]]
    /\ UNCHANGED <<cache, threadFrame>>

\* wrapper, line 113: return func(...), when the method returns or raises
w_113(t, outcome) ==
    /\ At(t, "w_113")
    /\ outcome \in FuncOutcomes[th[t].method, db, th[t].university_id, th[t].query, th[t].args]
    /\ th' = [th EXCEPT ![t] =
                 IF outcome.raised # ""
                 THEN WrapperResting(outcome.raised, <<>>, th[t].key, FALSE, FALSE)
                 ELSE WrapperResting("returned", outcome.results, th[t].key, FALSE, FALSE)]
    /\ UNCHANGED <<cache, threadFrame>>

\* wrapper, lines 116-118: course_search_cache.get(...), and the return on a hit
w_116(t) ==
    LET got == CacheGet(cache, th[t].key, now, ttl_seconds)
        overlapped == \E u \in Threads \ {t} : th[u].pc = "w_121"
    IN /\ At(t, "w_116")
       /\ StoreFree(t)
       /\ cache' = got.cache
       /\ th' = [th EXCEPT ![t] =
                    IF IsHit(got.ret)
                    THEN WrapperResting("returned", got.ret.val, th[t].key, TRUE, overlapped)
                    ELSE [th[t] EXCEPT !.pc = "w_121", !.overlapped = overlapped]]
       /\ UNCHANGED threadFrame

\* wrapper, line 121: results = func(...), when the method returns or raises
w_121(t, outcome) ==
    /\ At(t, "w_121")
    /\ outcome \in FuncOutcomes[th[t].method, db, th[t].university_id, th[t].query, th[t].args]
    /\ th' = [th EXCEPT ![t] =
                 IF outcome.raised # ""
                 THEN WrapperResting(outcome.raised, <<>>, th[t].key, FALSE, th[t].overlapped)
                 ELSE [th[t] EXCEPT !.pc = "w_124", !.results = outcome.results]]
    /\ UNCHANGED <<cache, threadFrame>>

\* wrapper, lines 124-126: course_search_cache.set(...); return results
w_124(t) ==
    LET put == CacheSet(cache, th[t].key, th[t].results, now, max_size)
    IN /\ At(t, "w_124")
       /\ StoreFree(t)
       /\ cache' = put.cache
       /\ th' = [th EXCEPT ![t] =
                    IF put.raised
                    THEN WrapperResting("KeyError", <<>>, th[t].key, FALSE, th[t].overlapped)
                    ELSE WrapperResting("returned", th[t].results, th[t].key, FALSE,
                                        th[t].overlapped)]
       /\ UNCHANGED threadFrame

\* the method the threads call
WrapperMethods == {"search_courses_summary"}

\* every way a backing search ends
WrapperOutcomes ==
    UNION {FuncOutcomes[method, table, u, q, a] :
              method \in WrapperMethods, table \in DbValues, u \in SearchUniversities,
              q \in SearchQueries, a \in SearchArgs}

InitWrapper ==
    /\ InitStore
    /\ max_size \in SearchCaps
    /\ track = "wrapper"
    /\ run = NoRun
    /\ db \in DbValues
    /\ first = NoFirst
    /\ kp = NoKp
    /\ th = [t \in Threads |-> WrapperResting("", <<>>, <<>>, FALSE, FALSE)]
    /\ call = NoCall
    /\ writer = NoWriter
    /\ rk = NoRk

NextWrapper ==
    \/ \E t \in Threads, method \in WrapperMethods, u \in SearchUniversities,
          q \in SearchQueries, a \in SearchArgs : w_112(t, method, u, q, a)
    \/ \E t \in Threads : \E outcome \in WrapperOutcomes : w_113(t, outcome)
    \/ \E t \in Threads : w_116(t)
    \/ \E t \in Threads : \E outcome \in WrapperOutcomes : w_121(t, outcome)
    \/ \E t \in Threads : w_124(t)
    \/ Tick

\* two threads in the decorated methods, a call of get or set being one step
SpecWrapper == InitWrapper /\ [][NextWrapper]_vars

\* ------------------------------------------------------------------ claims

\* C1: with one call at a time on a store constructed with max_size >= 1, the
\* number of resident entries never exceeds max_size.
C1_SizeBound == Len(cache) <= max_size

\* a set has just run on a full store, and the store is full again
C1_Witness ==
    /\ last.op = "set"
    /\ last.preLen = max_size
    /\ last.evicted # <<>>
    /\ Len(cache) = max_size

\* C2: a set of a non-resident key on a full store evicts exactly one entry, the
\* one whose last access (insertion or get hit) is the oldest, whatever the ages
\* of the entries; from an empty store, max_size + 1 sets of distinct keys with
\* no get in between leave every key resident but the first one set.
C2_EvictsLeastRecentlyAccessed ==
    /\ (last.op = "set" /\ last.found.isNone /\ last.preLen = max_size)
           => last.evicted = <<last.oldest>>
    /\ run.ok =>
           KeySeq(cache) = IF Len(run.keys) <= max_size THEN run.keys ELSE Tail(run.keys)

\* max_size + 1 distinct keys have been set on a store of capacity >= 2, and the
\* last set evicted the first key
C2_Witness ==
    /\ run.ok
    /\ max_size >= 2
    /\ Len(run.keys) = max_size + 1
    /\ last.op = "set"
    /\ last.evicted = <<run.keys[1]>>

\* C3: a get of a resident entry stored at time t0 returns its payload while
\* now - t0 < ttl_seconds and returns None once now - t0 >= ttl_seconds, the age
\* ttl_seconds included; t0 is the time of the set that stored it.
C3_TtlBoundary ==
    /\ (last.op = "get" /\ ~last.found.isNone) =>
           IF last.found.val.age < ttl_seconds
           THEN last.ret = Some(last.found.val.data)
           ELSE last.ret = NoneVal
    /\ (last.op = "set" /\ ~last.raised) =>
           /\ last.key \in Keys(cache)
           /\ GetItem(cache, last.key).ts = now
           /\ GetItem(cache, last.key).data = last.results

\* a get found an entry whose age is exactly ttl_seconds and returned None
C3_Witness ==
    /\ last.op = "get"
    /\ ~last.found.isNone
    /\ last.found.val.age = ttl_seconds
    /\ last.ret = NoneVal

\* C8: a get that finds a resident entry of age >= ttl_seconds returns None and
\* removes that entry and no other: the other entries, their payloads, their
\* timestamps and their order are unchanged.
C8_LazyExpiry ==
    [][(last'.op = "get" /\ ~last'.found.isNone /\ last'.found.val.age >= ttl_seconds)
          => /\ last'.ret = NoneVal
             /\ cache' = SelectSeq(cache, LAMBDA e : e.key # last'.key)
             /\ Len(cache') = Len(cache) - 1]_vars

\* a get has just removed an expired entry from a store that held another one
C8_Witness ==
    /\ last.op = "get"
    /\ ~last.found.isNone
    /\ last.found.val.age >= ttl_seconds
    /\ last.ret = NoneVal
    /\ last.preLen = 2
    /\ Len(cache) = 1

\* C9: after a get hit on key k, while the only calls are sets of new keys, gets
\* of k and gets of keys that were not resident at the hit, k is evicted only
\* after every other entry that was resident at the hit has been evicted.
C9_HitIsEvictedLast == (mru.active /\ mru.key \notin Keys(cache)) => mru.others = {}

\* the key of a get hit has been evicted, after the entries resident with it
C9_Witness ==
    /\ mru.active
    /\ mru.n >= 1
    /\ mru.key \notin Keys(cache)
    /\ mru.others = {}

\* C10: a set on a resident key replaces its payload, resets its timestamp to
\* the time of the set and moves the entry to the most recently used position.
C10_OverwriteRefreshes ==
    (last.op = "set" /\ ~last.found.isNone /\ ~last.raised) =>
        /\ GetItem(cache, last.key).data = last.results
        /\ GetItem(cache, last.key).ts = now
        /\ cache[Len(cache)].key = last.key

\* C6: _generate_key gives two parameter tuples the same key exactly when their
\* university_id are equal, their queries are equal up to letter case and
\* surrounding whitespace, their faculty_code are equal (None and the empty
\* string being different values) and their limit are equal.
SameLetter(c, d) ==
    \/ c = d
    \/ {c, d} \in {{"a", "A"}, {"b", "B"}, {"c", "C"}, {"d", "D"}}

Trimmed(s) ==
    LET solid == {i \in 1..Len(s) : s[i] \notin Whitespace}
    IN IF solid = {} THEN <<>>
       ELSE SubSeq(s, CHOOSE i \in solid : \A j \in solid : i <= j,
                      CHOOSE i \in solid : \A j \in solid : i >= j)

SameQuery(q1, q2) ==
    LET t1 == Trimmed(q1)
        t2 == Trimmed(q2)
    IN /\ Len(t1) = Len(t2)
       /\ \A i \in 1..Len(t1) : SameLetter(t1[i], t2[i])

C6_KeyIdentity ==
    kp.built =>
        ((kp.ka = kp.kb) <=>
            /\ kp.a.university_id = kp.b.university_id
            /\ SameQuery(kp.a.query, kp.b.query)
            /\ kp.a.faculty_code = kp.b.faculty_code
            /\ kp.a.limit = kp.b.limit)

\* two queries spelled differently, one with surrounding whitespace, under one key
C6_Witness ==
    /\ kp.built
    /\ kp.ka = kp.kb
    /\ kp.a.query # kp.b.query
    /\ Len(kp.a.query) # Len(kp.b.query)

\* C4 as claimed: with no change of the courses table, no set by another caller
\* and no clear since a first call, every repeat of that call less than
\* ttl_seconds after the first call returns the first call's result.
SameRequest(c, r) ==
    /\ c.method = r.method
    /\ c.university_id = r.university_id
    /\ c.query = r.query
    /\ c.args = r.args

C4_WithinWindowOfFirstCall ==
    (/\ call.op = "search"
     /\ ~call.bypass
     /\ ~first.isNone
     /\ SameRequest(call, first.val.r)
     /\ now - first.val.t < ttl_seconds)
        => call.ret = first.val.result

\* C4 as amended: ... every repeat of that call made while the entry the first
\* call read or stored is younger than ttl_seconds returns the first call's result.
C4_WithinWindowOfEntry ==
    (/\ call.op = "search"
     /\ ~call.bypass
     /\ ~first.isNone
     /\ SameRequest(call, first.val.r)
     /\ now - first.val.ts < ttl_seconds)
        => call.ret = first.val.result

\* a repeat of a call, later than the first call, served from the entry
C4_Witness ==
    /\ call.op = "search"
    /\ call.hit
    /\ ~first.isNone
    /\ SameRequest(call, first.val.r)
    /\ first.val.t < now
    /\ now - first.val.ts < ttl_seconds

\* C5: a search never returns an entry that the other search method stored: a hit
\* of search_courses_summary is on an entry search_courses_summary stored, and
\* a hit of search_courses_summary_optimized on one that method stored.
C5_NoSharedEntry == (call.op = "search" /\ call.hit) => call.writer = call.method

\* C7: with threads interleaved statement by statement, the store never holds
\* more than max_size entries and its order is a sequence of distinct keys.
C7_ThreadSafe ==
    /\ Len(cache) <= max_size
    /\ Cardinality(Keys(cache)) = Len(cache)

\* C11: a search whose query is shorter than 2 characters once trimmed runs the
\* backing search exactly once, leaves the store as it was, and returns what
\* the backing search returns on the table as it is at that call.
C11_ShortQueryBypasses ==
    [][(call'.op = "search" /\ Len(Trimmed(call'.query)) < 2)
        => /\ cache' = cache
           /\ call'.invoked = 1
           /\ ~call'.hit
           /\ call'.raised = call'.failure
           /\ call'.failure = ""
                => call'.ret \in Func(call'.method, db, call'.university_id,
                                      call'.query, call'.args)]_vars

C11_Witness ==
    /\ call.op = "search"
    /\ Len(call.query) >= 2
    /\ Len(Trimmed(call.query)) < 2
    /\ call.failure = ""
    /\ cache # <<>>

\* C12: every search whose query is shorter than 2 characters once trimmed
\* ends with an error signalled to the caller.
C12_InvalidQuery ==
    (call.op \in {"search", "rejected"} /\ Len(Trimmed(call.query)) < 2)
        => call.raised \in {"InvalidQuery", "RequestValidationError"}

\* C13: when the backing search raises in a search that missed the store, the
\* caller gets that error, the backing search ran once, and the store holds no
\* entry under the key of the request.
C13_FailureNotCached ==
    (call.op = "search" /\ Len(Trimmed(call.query)) >= 2 /\ call.failure # "")
        => /\ call.raised = call.failure
           /\ call.invoked = 1
           /\ KeyOf(Req(call.university_id, call.query,
                        WrapperFaculty(call.args), WrapperLimit(call.args)))
                \notin Keys(cache)

C13_Witness ==
    /\ call.op = "search"
    /\ Len(Trimmed(call.query)) >= 2
    /\ call.failure # ""
    /\ cache # <<>>
    /\ max_size > Len(cache)

\* C14: a search whose backing search did not fail returns the backing
\* search's rows and no error reaches the caller, whatever get and set do.
C14_FailsOpen ==
    (call.op = "search" /\ call.failure = "" /\ ~call.hit)
        => /\ call.raised = ""
           /\ call.ret \in Func(call.method, db, call.university_id, call.query, call.args)

\* C15: no call of get, set, clear or get_stats raises, whatever max_size is.
C15_NeverRaises == ~last.raised

\* the relations of the ranking rules, case-insensitive
SameText(s, t) == Len(s) = Len(t) /\ \A i \in 1..Len(s) : SameLetter(s[i], t[i])
StartsWith(s, q) == Len(q) <= Len(s) /\ SameText(SubSeq(s, 1, Len(q)), q)
Within(s, q) == \E i \in 0..(Len(s) - Len(q)) : SameText(SubSeq(s, i + 1, i + Len(q)), q)

\* ExactCode 1, CodePrefix 2, NamePrefix 3, Partial 4
MatchTier(code, name, q) ==
    IF SameText(code, q) THEN 1
    ELSE IF StartsWith(code, q) THEN 2
    ELSE IF StartsWith(name, q) THEN 3
    ELSE 4

\* the rows of the table the ranked search is about
Matching ==
    {row \in Range(db) : /\ row.university_id = RankUniversity
                         /\ Within(row.code, rk.query) \/ Within(row.name, rk.query)}

\* C16: every matching record gets the tier of the first rule that applies,
\* the comparisons ignoring letter case.
C16_TierByFirstRule ==
    rk.op = "rank"
        => \A row \in Matching : Tier(row, rk.query) = MatchTier(row.code, row.name, rk.query)

\* the tier the search gives a returned record (id, code, name)
TierOf(s) == Tier([code |-> s[2], name |-> s[3]], rk.query)

\* C17: any two consecutive records of the output are in ascending order of
\* (tier, code, name).
C17_SortedOutput ==
    rk.op = "rank"
        => \A i \in 1..(Len(rk.out) - 1) :
              LET a == rk.out[i]
                  b == rk.out[i + 1]
              IN \/ TierOf(a) < TierOf(b)
                 \/ TierOf(a) = TierOf(b) /\ StrLess(a[2], b[2])
                 \/ TierOf(a) = TierOf(b) /\ a[2] = b[2] /\ ~StrLess(b[3], a[3])

C17_Witness ==
    /\ rk.op = "rank"
    /\ Len(rk.out) = 3
    /\ TierOf(rk.out[1]) = TierOf(rk.out[2])
    /\ rk.out[1][2] # rk.out[2][2]
    /\ TierOf(rk.out[2]) < TierOf(rk.out[3])
    /\ \E i \in 1..2 : Summary(db[i]) = rk.out[3]

\* record a ranks strictly before record b
StrictlyBefore(a, b) ==
    \/ TierOf(a) < TierOf(b)
    \/ TierOf(a) = TierOf(b) /\ StrLess(a[2], b[2])
    \/ TierOf(a) = TierOf(b) /\ a[2] = b[2] /\ StrLess(a[3], b[3])

\* C18: the output has min(limit, matches) records, and no matching record
\* left out ranks strictly before a record that is returned.
C18_TruncatesAfterRanking ==
    rk.op = "rank"
        => LET returned == Range(rk.out)
               omitted == {Summary(row) : row \in Matching} \ returned
           IN /\ Len(rk.out) = IF rk.limit < Cardinality(Matching)
                               THEN rk.limit ELSE Cardinality(Matching)
              /\ returned \subseteq {Summary(row) : row \in Matching}
              /\ \A o \in omitted, x \in returned : ~StrictlyBefore(o, x)

C18_Witness ==
    /\ rk.op = "rank"
    /\ rk.limit < Cardinality(Matching)
    /\ \E x \in Range(rk.out) : Summary(db[1]) # x /\ StrictlyBefore(x, Summary(db[1]))
    /\ Summary(db[1]) \notin Range(rk.out)

\* C19: the ranked search asked the same question again of the same rows
\* returns the same sequence, whatever order the rows are stored in.
C19_OrderIndependent == rk.before.isNone \/ rk.before.val.out = rk.out

\* C20: a matching record with an empty code or an empty name gets the
\* Partial tier.
C20_EmptyFieldIsPartial ==
    rk.op = "rank"
        => \A row \in Matching :
              (row.code = <<>> \/ row.name = <<>>) => Tier(row, rk.query) = 4

\* C21: a clear leaves the store empty with max_size and ttl_seconds as they
\* were, every key is then absent, and a get right after a clear returns None.
C21_ClearEmpties ==
    [][/\ last'.op = "clear"
            => /\ cache' = <<>>
               /\ max_size' = max_size
               /\ ttl_seconds' = ttl_seconds
               /\ \A p \in Requests :
                     CacheGet(cache', RequestKey[p], now', ttl_seconds').ret.isNone
       /\ (last.op = "clear" /\ last'.op = "get") => last'.ret.isNone]_vars

C21_Witness ==
    /\ last.op = "clear"
    /\ last.preLen >= 2
    /\ cache = <<>>

\* what get_stats reports, but for the number of expired entries
StatsFrame ==
    /\ last.stats.total_entries = Len(cache)
    /\ last.stats.active_entries = last.stats.total_entries - last.stats.expired_entries
    /\ last.stats.max_size = max_size
    /\ last.stats.ttl_seconds = ttl_seconds
    /\ 0 <= last.stats.expired_entries
    /\ last.stats.expired_entries <= last.stats.total_entries
    /\ last.stats.total_entries <= max_size

C27_OverwriteEvictsNoOther ==
    (last.op = "set" /\ ~last.found.isNone)
        => /\ ~last.raised
           /\ Range(last.evicted) \subseteq {last.key}
           /\ Len(cache) = last.preLen

\* C29: a get hit returns the stored payload and leaves the entry's payload
\* and creation timestamp as they were, moving the entry to the most recent
\* position and touching no other entry; a get of an entry whose age has
\* reached ttl_seconds returns absent and removes it, whatever was read before.
C29_HitKeepsTimestamp ==
    [][last'.op = "get"
          => /\ ~last'.ret.isNone
                  => /\ last'.key \in Keys(cache)
                     /\ GetItem(cache', last'.key) = GetItem(cache, last'.key)
                     /\ last'.ret = Some(GetItem(cache, last'.key).data)
                     /\ Range(cache') = Range(cache)
                     /\ cache'[Len(cache')].key = last'.key
             /\ (/\ last'.key \in Keys(cache)
                 /\ now - GetItem(cache, last'.key).ts >= ttl_seconds)
                  => /\ last'.ret.isNone
                     /\ last'.key \notin Keys(cache')]_vars

C29_Witness ==
    /\ last.op = "get"
    /\ ~last.ret.isNone
    /\ last.preLen >= 2
    /\ last.oldest = last.key
    /\ GetItem(cache, last.key).ts < now

\* C30: get_stats leaves the store as it was (entries, payloads, timestamps
\* and order), expired entries included, and so does a get of a key that is
\* not resident, which returns absent.
C30_StatsReadOnly ==
    [][/\ last'.op = "get_stats" => cache' = cache
       /\ (last'.op = "get" /\ last'.key \notin Keys(cache))
            => /\ cache' = cache
               /\ last'.ret.isNone]_vars

C30_Witness ==
    /\ last.op = "get_stats"
    /\ last.stats.expired_entries >= 1
    /\ last.stats.total_entries >= 2
    /\ Len(cache) = last.stats.total_entries

\* C28: under any interleaving of the threads' statements no get and no set
\* ends by raising: every call returns.
C28_ConcurrentCallsReturn ==
    \A t \in Threads : th[t].out # "KeyError"

\* the key of the search call recorded in c
CallKey(c) == SearchKey[Req(c.university_id, c.query, WrapperFaculty(c.args), WrapperLimit(c.args))]

C26_SameAsUncached ==
    (call.op = "search" /\ call.raised = "")
        => call.ret \in Backing[call.method, db, call.university_id, call.query, call.args]

\* the step of clear: the only statement that changes the store and leaves
\* every thread at the statement it was at
ClearStep ==
    /\ cache' # cache
    /\ \A u \in Threads : th'[u].pc = th[u].pc

\* C22: clear takes the store from its n entries to none in one step, so a
\* get or get_stats beside it reads the store either with all of them or
\* with none; an iteration of get_stats that goes on has the store as it was
\* when the iteration began, and one that clear cut short is marked to raise.
C22_ClearIsOneStep ==
    [][/\ ClearStep
          => /\ cache' = <<>>
             /\ \A t \in Threads :
                   (th[t].pc = "gs_72_next" /\ th[t].it < th[t].size)
                       => th'[t].pc = "gs_72_next" /\ th'[t].dirty
       /\ \A t \in Threads :
             (th[t].pc = "gs_72_next" /\ ~th[t].dirty) => th[t].size = Len(cache)]_vars

C22_Witness ==
    /\ cache = <<>>
    /\ \E t \in Threads :
          /\ th[t].pc = "gs_72_next"
          /\ th[t].dirty
          /\ th[t].size >= 2
          /\ th[t].it = 1
    /\ \E t \in Threads : th[t].pc = "idle" /\ th[t].out = "returned"

\* C23: while a thread is in its backing search after a miss, another
\* thread whose call has another key and is at its cache probe can take that
\* step, and takes it to the end of the call with the cached payload when the
\* key is resident and not expired.
C23_ProbeNeverWaits ==
    \A t \in Threads, u \in Threads :
        (/\ t # u
         /\ th[t].pc = "w_121"
         /\ th[u].pc = "w_116"
         /\ th[u].key # th[t].key)
            => /\ ENABLED w_116(u)
               /\ (/\ th[u].key \in Keys(cache)
                   /\ now - GetItem(cache, th[u].key).ts < ttl_seconds)
                    => ENABLED (/\ w_116(u)
                                /\ th'[u].pc = "idle"
                                /\ th'[u].hit
                                /\ th'[u].ret = GetItem(cache, th[u].key).data
                                /\ th'[t].pc = "w_121")

C23_Witness ==
    \E t \in Threads, u \in Threads :
        /\ t # u
        /\ th[t].pc = "w_121"
        /\ th[u].pc = "idle"
        /\ th[u].out = "returned"
        /\ th[u].hit
        /\ th[u].overlapped
        /\ th[u].key # th[t].key

====
